---- MODULE Spec2Model ----
(***************************************************************************)
(* Model of the Shopify extract-and-load pipeline                          *)
(* (src/dlt/shopify_simple_pipeline.py) and of its connectivity probe      *)
(* (src/dlt/test_shopify_connection.py).                                   *)
(*                                                                         *)
(* Three specifications share the module:                                  *)
(*   Spec        the pipeline: three paginated resource streams, run one   *)
(*               after another, each loaded into its table                 *)
(*   FlattenSpec the per-record flattening, applied to bounded raw records *)
(*   ProbeSpec   one call of test_shopify_connection()                     *)
(***************************************************************************)
EXTENDS Integers, Sequences, FiniteSets, TLC

VARIABLES
    env,        \* process environment: API_TOKEN and STORE_ID (a value or null)
    api,        \* the remote store: page chains, Link header style, failing request
    run,        \* number of the pipeline invocation in progress
    cur,        \* position in ResourceOrder of the stream being run (Len+1: finished)
    phase,      \* "paging" | "ended" | "crashed" (generator), "idle" | "done" (main)
    page_info,  \* the generator's local page_info (null before the first cursor)
    reqs,       \* per resource: the requests issued in this run, with their responses
    events,     \* per resource: "get" and "sleep" events of this run, in order
    emitted,    \* per resource: the flat records yielded in this run, in order
    loads,      \* the pipeline.run calls completed in this run, in order
    tables,     \* per resource: rows of the destination table
    snapshot,   \* per resource: the tables' primary keys when the first invocation completed
    now,        \* wall clock (ticks)
    fkind,      \* FlattenSpec: resource kind of the record
    fraw,       \* FlattenSpec: the raw record
    fflat,      \* FlattenSpec: the flat record produced
    fpc,        \* FlattenSpec: "raw" | "flat"
    penv,       \* ProbeSpec: process environment
    papi,       \* ProbeSpec: the remote store's answers to the probe
    presult,    \* ProbeSpec: what the probe requested, printed and returned
    ppc         \* ProbeSpec: "start" | "done"

pipeVars == <<env, api, run, cur, phase, page_info, reqs, events, emitted, loads,
              tables, snapshot, now>>
flatVars == <<fkind, fraw, fflat, fpc>>
probeVars == <<penv, papi, presult, ppc>>
vars == <<pipeVars, flatVars, probeVars>>

(***************************************************************************)
(* Python / JSON values.  Every value is a record [t, v, d]: t its type,   *)
(* v its text (a sequence of tokens), d its items (a dict's fields, a      *)
(* list's elements).                                                       *)
(***************************************************************************)
Null == [t |-> "null", v |-> <<>>, d |-> <<>>]
StrV(s) == [t |-> "str", v |-> <<s>>, d |-> <<>>]
TextV(toks) == [t |-> "str", v |-> toks, d |-> <<>>]
IntV(n) == [t |-> "int", v |-> <<ToString(n)>>, d |-> <<>>]
Obj(fields) == [t |-> "obj", v |-> <<>>, d |-> fields]
ListV(items) == [t |-> "list", v |-> <<>>, d |-> items]
EmptyObj == Obj(<<>>)
EmptyList == ListV(<<>>)
\* an exception raised while evaluating an expression
Raised(what) == [t |-> "raise", v |-> <<what>>, d |-> <<>>]

\* Python truthiness: None, "", 0, {} and [] are false
Truthy(x) ==
    CASE x.t = "null" -> FALSE
      [] x.t = "str" -> x.v # <<>> /\ x.v # <<"">>
      [] x.t = "int" -> x.v # <<"0">>
      [] x.t = "obj" -> DOMAIN x.d # {}
      [] x.t = "list" -> DOMAIN x.d # {}
      [] OTHER -> TRUE

\* dict.get(key): the value, or None when the key is absent
Get(rec, key) == IF key \in DOMAIN rec.d THEN rec.d[key] ELSE Null

\* dict.get(key, default)
GetDefault(rec, key, default) == IF key \in DOMAIN rec.d THEN rec.d[key] ELSE default

\* x.get(key) on an arbitrary value: only a dict has .get
AttrGet(x, key) == IF x.t = "obj" THEN Get(x, key) ELSE Raised("AttributeError")

\* faulty variant: the nested lookup without its guard on the parent
NestedUnguarded(rec, parent, child) == AttrGet(Get(rec, parent), child)

\* rec.get(parent, {}).get(child) if rec.get(parent) else None
Nested(rec, parent, child) ==
    IF Truthy(Get(rec, parent))
    THEN AttrGet(GetDefault(rec, parent, EmptyObj), child)
    ELSE Null

\* the order in which a dict's keys are printed (insertion order of the API's objects)
KeyOrder == <<"id", "name", "company", "address1", "city", "province", "country", "zip",
              "email">>

RECURSIVE PyStrTokens(_)
\* the text str(x) produces, as tokens
PyStrTokens(x) ==
    LET RECURSIVE items(_, _)
        items(s, i) == IF i > Len(s) THEN <<>> ELSE PyStrTokens(s[i]) \o items(s, i + 1)
        RECURSIVE fields(_)
        fields(i) == IF i > Len(KeyOrder) THEN <<>>
                     ELSE (IF KeyOrder[i] \in DOMAIN x.d
                           THEN <<KeyOrder[i]>> \o PyStrTokens(x.d[KeyOrder[i]])
                           ELSE <<>>) \o fields(i + 1)
    IN CASE x.t = "null" -> <<"None">>
         [] x.t = "list" -> IF DOMAIN x.d = {} THEN <<"[]">>
                            ELSE <<"[">> \o items(x.d, 1) \o <<"]">>
         [] x.t = "obj" -> IF DOMAIN x.d = {} THEN <<"{}">>
                           ELSE <<"{">> \o fields(1) \o <<"}">>
         [] OTHER -> x.v

\* str(x)
PyStr(x) == TextV(PyStrTokens(x))

\* faulty variant: a dict display that leaves out the entries whose value is None
DictDisplayDropNone(pairs) ==
    LET keep == {i \in 1..Len(pairs) : pairs[i][2].t # "null"}
    IN [k \in {pairs[i][1] : i \in keep} |->
          LET at == {i \in keep : pairs[i][1] = k}
          IN pairs[CHOOSE i \in at : \A j \in at : j <= i][2]]

\* a dict display {k1: v1, k2: v2, ...}: the entries are inserted in order
DictDisplay(pairs) ==
    [k \in {pairs[i][1] : i \in 1..Len(pairs)} |->
          LET at == {i \in 1..Len(pairs) : pairs[i][1] = k}
          IN pairs[CHOOSE i \in at : \A j \in at : j <= i][2]]

\* datetime.now().isoformat()
IsoFormat(clock) == TextV(<<"T", ToString(clock)>>)

order_flat(order, clock) == DictDisplay(<<
    <<"id", Get(order, "id")>>,
    <<"order_number", Get(order, "order_number")>>,
    <<"name", Get(order, "name")>>,
    <<"email", Get(order, "email")>>,
    <<"phone", Get(order, "phone")>>,
    <<"created_at", Get(order, "created_at")>>,
    <<"updated_at", Get(order, "updated_at")>>,
    <<"processed_at", Get(order, "processed_at")>>,
    <<"cancelled_at", Get(order, "cancelled_at")>>,
    <<"cancel_reason", Get(order, "cancel_reason")>>,
    <<"currency", Get(order, "currency")>>,
    <<"financial_status", Get(order, "financial_status")>>,
    <<"fulfillment_status", Get(order, "fulfillment_status")>>,
    <<"total_price", Get(order, "total_price")>>,
    <<"subtotal_price", Get(order, "subtotal_price")>>,
    <<"total_tax", Get(order, "total_tax")>>,
    <<"total_discounts", Get(order, "total_discounts")>>,
    <<"total_weight", Get(order, "total_weight")>>,
    <<"total_tip_received", Get(order, "total_tip_received")>>,
    <<"customer_id", Nested(order, "customer", "id")>>,
    <<"customer_email", Nested(order, "customer", "email")>>,
    <<"billing_address_name", Nested(order, "billing_address", "name")>>,
    <<"billing_address_company", Nested(order, "billing_address", "company")>>,
    <<"billing_address_address1", Nested(order, "billing_address", "address1")>>,
    <<"billing_address_city", Nested(order, "billing_address", "city")>>,
    <<"billing_address_province", Nested(order, "billing_address", "province")>>,
    <<"billing_address_country", Nested(order, "billing_address", "country")>>,
    <<"billing_address_zip", Nested(order, "billing_address", "zip")>>,
    <<"shipping_address_name", Nested(order, "shipping_address", "name")>>,
    <<"shipping_address_company", Nested(order, "shipping_address", "company")>>,
    <<"shipping_address_address1", Nested(order, "shipping_address", "address1")>>,
    <<"shipping_address_city", Nested(order, "shipping_address", "city")>>,
    <<"shipping_address_province", Nested(order, "shipping_address", "province")>>,
    <<"shipping_address_country", Nested(order, "shipping_address", "country")>>,
    <<"shipping_address_zip", Nested(order, "shipping_address", "zip")>>,
    <<"note", Get(order, "note")>>,
    <<"tags", Get(order, "tags")>>,
    <<"extracted_at", IsoFormat(clock)>> >>)

product_flat(product, clock) == DictDisplay(<<
    <<"id", Get(product, "id")>>,
    <<"title", Get(product, "title")>>,
    <<"body_html", Get(product, "body_html")>>,
    <<"vendor", Get(product, "vendor")>>,
    <<"product_type", Get(product, "product_type")>>,
    <<"created_at", Get(product, "created_at")>>,
    <<"updated_at", Get(product, "updated_at")>>,
    <<"published_at", Get(product, "published_at")>>,
    <<"template_suffix", Get(product, "template_suffix")>>,
    <<"status", Get(product, "status")>>,
    <<"published_scope", Get(product, "published_scope")>>,
    <<"tags", Get(product, "tags")>>,
    <<"admin_graphql_api_id", Get(product, "admin_graphql_api_id")>>,
    <<"handle", Get(product, "handle")>>,
    <<"extracted_at", IsoFormat(clock)>> >>)

customer_flat(customer, clock) == DictDisplay(<<
    <<"id", Get(customer, "id")>>,
    <<"email", Get(customer, "email")>>,
    <<"accepts_marketing", Get(customer, "accepts_marketing")>>,
    <<"created_at", Get(customer, "created_at")>>,
    <<"updated_at", Get(customer, "updated_at")>>,
    <<"first_name", Get(customer, "first_name")>>,
    <<"last_name", Get(customer, "last_name")>>,
    <<"orders_count", Get(customer, "orders_count")>>,
    <<"state", Get(customer, "state")>>,
    <<"total_spent", Get(customer, "total_spent")>>,
    <<"last_order_id", Get(customer, "last_order_id")>>,
    <<"note", Get(customer, "note")>>,
    <<"verified_email", Get(customer, "verified_email")>>,
    <<"multipass_identifier", Get(customer, "multipass_identifier")>>,
    <<"tax_exempt", Get(customer, "tax_exempt")>>,
    <<"tags", Get(customer, "tags")>>,
    <<"last_order_name", Get(customer, "last_order_name")>>,
    <<"currency", Get(customer, "currency")>>,
    <<"phone", Get(customer, "phone")>>,
    <<"addresses", PyStr(GetDefault(customer, "addresses", EmptyList))>>,
    <<"accepts_marketing_updated_at", Get(customer, "accepts_marketing_updated_at")>>,
    <<"marketing_opt_in_level", Get(customer, "marketing_opt_in_level")>>,
    <<"tax_exemptions", PyStr(GetDefault(customer, "tax_exemptions", EmptyList))>>,
    <<"admin_graphql_api_id", Get(customer, "admin_graphql_api_id")>>,
    <<"default_address", PyStr(GetDefault(customer, "default_address", EmptyObj))>>,
    <<"extracted_at", IsoFormat(clock)>> >>)

\* the three resource functions shopify_source() returns, in the order main runs them
ResourceOrder == <<"orders", "products", "customers">>
Resources == {ResourceOrder[i] : i \in 1..Len(ResourceOrder)}

\* the flattening each resource applies to one raw record
Flatten(kind, raw, clock) ==
    CASE kind = "orders" -> order_flat(raw, clock)
      [] kind = "products" -> product_flat(raw, clock)
      [] kind = "customers" -> customer_flat(raw, clock)


(***************************************************************************)
(* The remote store.  A resource is served as a chain of npages pages;     *)
(* page i is reached without a cursor (i = 1) or with the cursor the store *)
(* issued for it.  The store is fixed for the whole behaviour: the same    *)
(* request gets the same answer in every invocation.                       *)
(***************************************************************************)
MaxPages == 3
MaxRequests == 5
MaxRuns == 2

\* default page size of the three resource functions
Limit == 250
\* time.sleep(0.5), in milliseconds
SleepMs == 500

StoreName == "mystore"
ValidToken == "shpat_secret"
RelNext == "rel=\"next\""
RelPrev == "rel=\"previous\""
LinkStyles == {"next_only", "prev_first", "next_first", "bare_last"}

\* records on page i: two on the first page, one on the others
PageLen(i) == IF i = 1 THEN 2 ELSE 1

Address(tag) == Obj([k \in {"name", "company", "address1", "city", "province",
                            "country", "zip"} |-> StrV(tag)])

\* the j-th raw record of page i of a resource, as the store returns it
RawRecord(r, i, j) ==
    LET id == IntV(10 * i + j)
        top == [k \in {"id", "email", "created_at", "tags"} |->
                   IF k = "id" THEN id ELSE StrV(k)]
    IN CASE r = "orders" ->
              Obj(IF j = 1
                  THEN [k \in DOMAIN top \cup {"customer", "billing_address"} |->
                          IF k = "customer" THEN Obj([f \in {"id", "email"} |-> StrV(f)])
                          ELSE IF k = "billing_address" THEN Address("b")
                          ELSE top[k]]
                  ELSE [k \in DOMAIN top \cup {"customer"} |->
                          IF k = "customer" THEN Null ELSE top[k]])
         [] r = "products" -> Obj(top)
         [] r = "customers" ->
              Obj(IF j = 1
                  THEN [k \in DOMAIN top \cup {"addresses", "default_address"} |->
                          IF k = "addresses" THEN ListV(<<Address("a")>>)
                          ELSE IF k = "default_address" THEN Address("a")
                          ELSE top[k]]
                  ELSE top)

\* the list a page carries under the resource's plural key
PageRecords(r, i) == [j \in 1..PageLen(i) |-> RawRecord(r, i, j)]

\* the cursor the store issues for page i
Cursor(i) == ToString(i)

\* one entry of a Link header: <url?limit=..&page_info=cursor>; rel
LinkEntry(r, cursor, rel) ==
    <<"<", "https://", StoreName, ".myshopify.com", "/admin/api/2024-01/", r, ".json?",
      "limit=", ToString(Limit), "&", "page_info=", cursor, ">", ";", rel>>

\* a link that names a relation but carries no page_info
BareEntry(r, rel) ==
    <<"<", "https://", StoreName, ".myshopify.com", "/admin/api/2024-01/", r, ".json",
      ">", ";", rel>>

\* the Link header the store sends with page i of n (<<>>: no Link header)
LinkHeader(style, r, i, n) ==
    LET next == IF i < n THEN LinkEntry(r, Cursor(i + 1), RelNext)
                ELSE IF style = "bare_last" THEN BareEntry(r, RelNext) ELSE <<>>
        prev == IF i > 1 /\ style \in {"prev_first", "next_first"}
                THEN LinkEntry(r, Cursor(i - 1), RelPrev) ELSE <<>>
        fst == IF style = "next_first" THEN next ELSE prev
        snd == IF style = "next_first" THEN prev ELSE next
    IN IF fst = <<>> THEN snd
       ELSE IF snd = <<>> THEN fst
       ELSE fst \o <<",">> \o snd

(***************************************************************************)
(* The generator of one resource (orders, products, customers: the three   *)
(* bodies differ in the endpoint, the extra status parameter and the       *)
(* flattening only).                                                       *)
(***************************************************************************)
\* os.getenv(name)
Getenv(e, name) == e[name]

\* shop_url = f"{store_id}.myshopify.com"
ShopUrl(e) == PyStrTokens(Getenv(e, "STORE_ID")) \o <<".myshopify.com">>

\* base_url = f"https://{shop_url}/admin/api/2024-01"
BaseUrl(e) == <<"https://">> \o ShopUrl(e) \o <<"/admin/api/2024-01">>

\* headers = {'X-Shopify-Access-Token': api_token, 'Content-Type': ...}
Headers(e) == [h \in {"X-Shopify-Access-Token", "Content-Type"} |->
                 IF h = "Content-Type" THEN StrV("application/json")
                 ELSE Getenv(e, "API_TOKEN")]

\* params = {'limit': limit[, 'status': status]}, plus page_info once it is set
Params(r, pinfo) ==
    LET base == IF r = "orders"
                THEN [k \in {"limit", "status"} |->
                        IF k = "limit" THEN IntV(Limit) ELSE StrV("any")]
                ELSE [k \in {"limit"} |-> IntV(Limit)]
    IN IF Truthy(pinfo)
       THEN [k \in DOMAIN base \cup {"page_info"} |->
               IF k = "page_info" THEN pinfo ELSE base[k]]
       ELSE base

\* the GET request of one loop iteration
Request(e, r, pinfo) ==
    [url |-> BaseUrl(e) \o <<"/", r, ".json">>,
     headers |-> Headers(e),
     params |-> Params(r, pinfo)]

\* the page a request addresses: page 1 without a cursor, else the cursor's page
\* (0: the cursor names no page of the chain)
PageOf(a, r, req) ==
    IF "page_info" \notin DOMAIN req.params THEN 1
    ELSE LET hit == {i \in 1..a.npages[r] : req.params["page_info"].v = <<Cursor(i)>>}
         IN IF hit = {} THEN 0 ELSE CHOOSE i \in hit : TRUE

\* the answer to the k-th request of resource r in an invocation:
\* exc: the exception requests.get / raise_for_status raises ("" for none)
Response(a, r, req, k) ==
    LET page == PageOf(a, r, req)
        fail(exc, status) == [exc |-> exc, status |-> status, page |-> 0,
                              body |-> <<>>, link |-> <<>>]
    IN IF req.url # <<"https://", StoreName, ".myshopify.com", "/admin/api/2024-01",
                      "/", r, ".json">>
       THEN fail("ConnectionError", 0)
       ELSE IF req.headers["X-Shopify-Access-Token"] # StrV(ValidToken)
       THEN fail("HTTPError", 401)
       ELSE IF a.failRes = r /\ a.failAt = k
       THEN (IF a.failStatus = 0 THEN fail("ConnectionError", 0)
             ELSE fail("HTTPError", a.failStatus))
       ELSE IF page = 0 THEN fail("HTTPError", 400)
       ELSE [exc |-> "", status |-> 200, page |-> page,
             body |-> IF a.npages[r] = 0 THEN <<>> ELSE PageRecords(r, page),
             link |-> IF a.npages[r] = 0 THEN <<>>
                      ELSE LinkHeader(a.style, r, page, a.npages[r])]

\* faulty variant: the handler catches connection errors only
IsConnectionError(exc) == exc = "ConnectionError"

\* except requests.exceptions.RequestException
IsRequestException(exc) == exc \in {"ConnectionError", "HTTPError", "Timeout"}

\* faulty variant: the test looks for any relation, not for rel="next"
HasRelAny(link) == \E i \in 1..Len(link) : link[i] \in {RelNext, RelPrev}

\* 'rel="next"' in link_header
HasRelNext(link) == \E i \in 1..Len(link) : link[i] = RelNext

\* the characters [^&>]
Stops == {"&", ">"}

\* re.search(r'page_info=([^&>]+)', link_header): group 1 of the leftmost match
\* (null: no match)
ReSearch(link) ==
    LET starts == {i \in 1..Len(link) - 1 :
                     link[i] = "page_info=" /\ link[i + 1] \notin Stops}
    IN IF starts = {} THEN Null
       ELSE LET s == CHOOSE i \in starts : \A j \in starts : i <= j
                e == CHOOSE j \in s + 1..Len(link) :
                        /\ \A m \in s + 1..j : link[m] \notin Stops
                        /\ (j = Len(link) \/ link[j + 1] \in Stops)
            IN TextV(SubSeq(link, s + 1, e))

\* what is recorded of a request and its answer
Logged(req, resp) ==
    [url |-> req.url, headers |-> req.headers, params |-> req.params,
     exc |-> resp.exc, status |-> resp.status, page |-> resp.page, link |-> resp.link]

\* the flat records yielded for one page
FlatPage(r, body, clock) == [j \in 1..Len(body) |-> Flatten(r, body[j], clock)]

\* the resource the pipeline is running
Current == ResourceOrder[cur]

\* one iteration of the while loop of resource r
Fetch(r) ==
    /\ cur <= Len(ResourceOrder) /\ r = Current /\ phase = "paging"
    /\ Len(reqs[r]) < MaxRequests
    /\ LET req == Request(env, r, page_info)
           resp == Response(api, r, req, Len(reqs[r]) + 1)
           next_match == ReSearch(resp.link)
       IN /\ reqs' = [reqs EXCEPT ![r] = Append(@, Logged(req, resp))]
          /\ IF resp.exc # ""
             THEN \* except RequestException: print("Error fetching ..."); break
                  \* (any other exception leaves the generator and ends main)
                  /\ phase' = IF IsRequestException(resp.exc) THEN "ended" ELSE "crashed"
                  /\ events' = [events EXCEPT ![r] = Append(@, "get")]
                  /\ UNCHANGED <<page_info, emitted, now>>
             ELSE IF resp.body = <<>>
             THEN \* if not orders_data: break
                  /\ phase' = "ended"
                  /\ events' = [events EXCEPT ![r] = Append(@, "get")]
                  /\ UNCHANGED <<page_info, emitted, now>>
             ELSE /\ emitted' = [emitted EXCEPT ![r] = @ \o FlatPage(r, resp.body, now)]
                  /\ IF HasRelNext(resp.link) /\ next_match # Null
                     THEN /\ page_info' = next_match
                          /\ events' = [events EXCEPT ![r] = @ \o <<"get", "sleep">>]
                          /\ now' = now + SleepMs
                          /\ UNCHANGED phase
                     ELSE /\ phase' = "ended"
                          /\ events' = [events EXCEPT ![r] = Append(@, "get")]
                          /\ UNCHANGED <<page_info, now>>
    /\ UNCHANGED <<env, api, run, cur, loads, tables, snapshot, flatVars, probeVars>>

\* faulty variant: the resources are declared with the append disposition
WriteDispositionAppend == "append"

\* write_disposition of the three resources
WriteDisposition == "merge"

\* primary_key of the three resources
PrimaryKey == "id"

\* the loader's write of one row under the resource's write disposition
WriteRow(table, row) ==
    IF WriteDisposition = "merge" /\
       \E i \in 1..Len(table) : table[i][PrimaryKey] = row[PrimaryKey]
    THEN [i \in 1..Len(table) |->
            IF table[i][PrimaryKey] = row[PrimaryKey] THEN row ELSE table[i]]
    ELSE Append(table, row)

RECURSIVE WriteRows(_, _)
\* the loader's write of the rows of one stream, in order
WriteRows(table, rows) ==
    IF rows = <<>> THEN table
    ELSE WriteRows(WriteRow(table, Head(rows)), Tail(rows))

\* the primary keys of a table's rows, in row order
Keys(table) == [i \in 1..Len(table) |-> table[i][PrimaryKey]]

\* faulty variant: a stream that ended on a failed request aborts the invocation
LoadAborting(r) ==
    /\ cur <= Len(ResourceOrder) /\ r = Current /\ phase = "ended"
    /\ tables' = [tables EXCEPT ![r] = WriteRows(@, emitted[r])]
    /\ loads' = Append(loads, r)
    /\ cur' = IF reqs[r] # <<>> /\ reqs[r][Len(reqs[r])].exc # ""
              THEN Len(ResourceOrder) + 1 ELSE cur + 1
    /\ phase' = IF cur' <= Len(ResourceOrder) THEN "paging" ELSE "idle"
    /\ page_info' = Null
    /\ UNCHANGED <<env, api, run, reqs, events, emitted, snapshot, now,
                   flatVars, probeVars>>

\* pipeline.run(source.<r>(...), table_name=<r>) returns: the stream is exhausted,
\* its rows are written, and main goes on to the next resource
Load(r) ==
    /\ cur <= Len(ResourceOrder) /\ r = Current /\ phase = "ended"
    /\ tables' = [tables EXCEPT ![r] = WriteRows(@, emitted[r])]
    /\ loads' = Append(loads, r)
    /\ cur' = cur + 1
    /\ phase' = IF cur' <= Len(ResourceOrder) THEN "paging" ELSE "idle"
    /\ page_info' = Null
    /\ UNCHANGED <<env, api, run, reqs, events, emitted, snapshot, now,
                   flatVars, probeVars>>

\* print("Pipeline completed successfully!") ...: the invocation ends
Complete ==
    /\ cur = Len(ResourceOrder) + 1 /\ phase = "idle"
    /\ phase' = "done"
    /\ snapshot' = IF run = 1 THEN [r \in Resources |-> Keys(tables[r])] ELSE snapshot
    /\ UNCHANGED <<env, api, run, cur, page_info, reqs, events, emitted, loads, tables,
                   now, flatVars, probeVars>>

\* the module is run again, later, against the same store and destination
Rerun ==
    /\ phase = "done" /\ run < MaxRuns
    /\ run' = run + 1
    /\ cur' = 1
    /\ phase' = "paging"
    /\ page_info' = Null
    /\ reqs' = [r \in Resources |-> <<>>]
    /\ events' = [r \in Resources |-> <<>>]
    /\ emitted' = [r \in Resources |-> <<>>]
    /\ loads' = <<>>
    /\ now' = now + 1
    /\ UNCHANGED <<env, api, tables, snapshot, flatVars, probeVars>>

EnvValues == [API_TOKEN : {Null, StrV(ValidToken)}, STORE_ID : {Null, StrV(StoreName)}]

CredentialsSet(e) == e["API_TOKEN"] # Null /\ e["STORE_ID"] # Null

\* the stores the pipeline is run against; the store's pages and failures are
\* unobservable without both credentials, so they are fixed there
Apis(e) ==
    IF CredentialsSet(e)
    THEN {a \in [style : LinkStyles, npages : [Resources -> 0..MaxPages],
                 failRes : Resources \cup {"none"}, failAt : 0..MaxPages,
                 failStatus : {0, 401}] :
            /\ (a.failRes = "none") = (a.failAt = 0)
            /\ a.failRes = "none" => a.failStatus = 0
            \* a failure at a request the stream never gets to is unobservable
            /\ a.failRes # "none" => a.failAt <= 1 \/ a.failAt <= a.npages[a.failRes]}
    ELSE {[style |-> "next_only", npages |-> [r \in Resources |-> 1],
           failRes |-> "none", failAt |-> 0, failStatus |-> 0]}

FlatIdle ==
    /\ fkind = "orders" /\ fraw = EmptyObj /\ fflat = <<>> /\ fpc = "idle"

ProbeIdle ==
    /\ penv = [API_TOKEN |-> Null, STORE_ID |-> Null]
    /\ papi = <<>> /\ presult = <<>> /\ ppc = "idle"

Init ==
    /\ env \in EnvValues
    /\ api \in Apis(env)
    /\ run = 1 /\ cur = 1 /\ phase = "paging" /\ page_info = Null
    /\ reqs = [r \in Resources |-> <<>>]
    /\ events = [r \in Resources |-> <<>>]
    /\ emitted = [r \in Resources |-> <<>>]
    /\ loads = <<>>
    /\ tables = [r \in Resources |-> <<>>]
    /\ snapshot = [r \in Resources |-> <<>>]
    /\ now = 0
    /\ FlatIdle /\ ProbeIdle

Next ==
    \/ \E r \in Resources : Fetch(r)
    \/ \E r \in Resources : Load(r)
    \/ Complete
    \/ Rerun

Spec == Init /\ [][Next]_vars


(***************************************************************************)
(* FlattenSpec: the flattening of one raw record of each kind, applied to  *)
(* bounded raw records in which top-level fields and nested objects are    *)
(* present, absent or null.                                                *)
(***************************************************************************)
\* the top-level scalar fields each kind of raw record can carry
ScalarFields(kind) ==
    CASE kind = "orders" ->
           {"id", "order_number", "name", "email", "phone", "created_at", "updated_at",
            "processed_at", "cancelled_at", "cancel_reason", "currency",
            "financial_status", "fulfillment_status", "total_price", "subtotal_price",
            "total_tax", "total_discounts", "total_weight", "total_tip_received",
            "note", "tags"}
      [] kind = "products" ->
           {"id", "title", "body_html", "vendor", "product_type", "created_at",
            "updated_at", "published_at", "template_suffix", "status",
            "published_scope", "tags", "admin_graphql_api_id", "handle"}
      [] kind = "customers" ->
           {"id", "email", "accepts_marketing", "created_at", "updated_at",
            "first_name", "last_name", "orders_count", "state", "total_spent",
            "last_order_id", "note", "verified_email", "multipass_identifier",
            "tax_exempt", "tags", "last_order_name", "currency", "phone",
            "accepts_marketing_updated_at", "marketing_opt_in_level",
            "admin_graphql_api_id"}

\* the nested fields each kind of raw record can carry
NestedFields(kind) ==
    CASE kind = "orders" -> {"customer", "billing_address", "shipping_address"}
      [] kind = "products" -> {}
      [] kind = "customers" -> {"addresses", "tax_exemptions", "default_address"}

\* the values a nested field takes when it is present
NestedValues(field) ==
    CASE field = "customer" ->
           {Null, EmptyObj, Obj([k \in {"id"} |-> IntV(7)]),
            Obj([k \in {"id", "email"} |-> IF k = "id" THEN IntV(7) ELSE StrV("e")])}
      [] field \in {"billing_address", "shipping_address"} ->
           {Null, EmptyObj, Obj([k \in {"city"} |-> StrV("c")]), Address("x")}
      [] field = "addresses" -> {Null, EmptyList, ListV(<<Address("x")>>)}
      [] field = "tax_exemptions" -> {Null, EmptyList, ListV(<<StrV("EXEMPT")>>)}
      [] field = "default_address" -> {Null, EmptyObj, Address("x")}

\* the scalar parts of the raw records: every field set, every field null, the
\* id alone, or no field at all
ScalarParts(kind) ==
    {[k \in ScalarFields(kind) |-> IF k = "id" THEN IntV(42) ELSE StrV(k)],
     [k \in ScalarFields(kind) |-> Null],
     [k \in {"id"} |-> IntV(42)],
     <<>>}

\* the raw records of a kind
RawRecords(kind) ==
    {Obj([k \in DOMAIN sc \cup present |-> IF k \in present THEN nested[k] ELSE sc[k]]) :
        sc \in ScalarParts(kind),
        present \in SUBSET NestedFields(kind),
        nested \in [NestedFields(kind) -> UNION {NestedValues(f) : f \in NestedFields(kind)}]}

\* the nested assignment gives each present field one of its own values
WellFormed(kind, raw) ==
    \A f \in NestedFields(kind) \cap DOMAIN raw.d : raw.d[f] \in NestedValues(f)

PipeIdle ==
    /\ env = [API_TOKEN |-> Null, STORE_ID |-> Null]
    /\ api = <<>> /\ run = 1 /\ cur = 1 /\ phase = "idle" /\ page_info = Null
    /\ reqs = <<>> /\ events = <<>> /\ emitted = <<>> /\ loads = <<>>
    /\ tables = <<>> /\ snapshot = <<>> /\ now = 0

FlattenInit ==
    /\ fkind \in Resources
    /\ fraw \in {raw \in RawRecords(fkind) : WellFormed(fkind, raw)}
    /\ fflat = <<>> /\ fpc = "raw"
    /\ PipeIdle /\ ProbeIdle

\* for <record> in <records>_data: <record>_flat = {...}; yield <record>_flat
FlattenRecord ==
    /\ fpc = "raw"
    /\ \E clock \in {0, SleepMs} : fflat' = Flatten(fkind, fraw, clock)
    /\ fpc' = "flat"
    /\ UNCHANGED <<fkind, fraw, pipeVars, probeVars>>

FlattenNext == FlattenRecord

FlattenSpec == FlattenInit /\ [][FlattenNext]_vars

(***************************************************************************)
(* ProbeSpec: one call of test_shopify_connection() of the connectivity    *)
(* probe, against a store in which at most one of its checks fails.        *)
(***************************************************************************)
\* the names bound in the probe module when the function runs: its imports
\* (dlt, requests, datetime) and its own function
ProbeGlobals == {"dlt", "requests", "datetime", "test_shopify_connection"}

\* the endpoints of tests 1 to 4, in the order of the calls
ProbeChecks == <<"/shop.json", "/orders/count.json", "/products/count.json",
                 "/customers/count.json">>

\* the endpoint of test 5
SampleOrder == "/orders.json?limit=1"

\* the probe's GET of one endpoint
ProbeRequest(e, endpoint) ==
    [url |-> BaseUrl(e) \o <<endpoint>>, headers |-> Headers(e)]

\* the store's answer to the probe's i-th request
ProbeResponse(a, req, i) ==
    IF SubSeq(req.url, 1, 4) # <<"https://", StoreName, ".myshopify.com",
                                  "/admin/api/2024-01">>
    THEN [exc |-> "ConnectionError", status |-> 0]
    ELSE IF req.headers["X-Shopify-Access-Token"] # StrV(ValidToken)
    THEN [exc |-> "HTTPError", status |-> 401]
    ELSE IF a.failAt = i
    THEN (IF a.failStatus = 0 THEN [exc |-> "ConnectionError", status |-> 0]
          ELSE [exc |-> "HTTPError", status |-> a.failStatus])
    ELSE [exc |-> "", status |-> 200]

RECURSIVE ProbeCalls(_, _, _, _)
\* tests i.. of the try block, after the requests in sent: each GET is followed
\* by raise_for_status(); test 5 runs if orders_count > 0
ProbeCalls(e, a, i, sent) ==
    IF i > Len(ProbeChecks) + 1 \/ (i = Len(ProbeChecks) + 1 /\ ~(a.orders_count > 0))
    THEN [exc |-> "", status |-> 0, requests |-> sent]
    ELSE LET endpoint == IF i <= Len(ProbeChecks) THEN ProbeChecks[i] ELSE SampleOrder
             req == ProbeRequest(e, endpoint)
             resp == ProbeResponse(a, req, i)
         IN IF resp.exc # ""
            THEN [exc |-> resp.exc, status |-> resp.status,
                  requests |-> Append(sent, req.url)]
            ELSE ProbeCalls(e, a, i + 1, Append(sent, req.url))

\* the try block: the exception it ends with ("" for none) and the requests sent
ProbeTry(e, a) ==
    IF "os" \notin ProbeGlobals
    THEN \* api_token = os.getenv('API_TOKEN'): the name os is not defined
         [exc |-> "NameError", status |-> 0, requests |-> <<>>]
    ELSE IF Getenv(e, "API_TOKEN").t # "str"
    THEN \* api_token[:10]: None is not subscriptable
         [exc |-> "TypeError", status |-> 0, requests |-> <<>>]
    ELSE ProbeCalls(e, a, 1, <<>>)

\* the except clauses, in order: what is printed for an exception
ProbeHandler(exc, status) ==
    IF exc = "KeyError" THEN "configuration"
    ELSE IF exc = "HTTPError"
    THEN (IF status = 401 THEN "authentication"
          ELSE IF status = 404 THEN "not_found"
          ELSE "http")
    ELSE IF IsRequestException(exc) THEN "network"
    ELSE "unexpected"

\* test_shopify_connection(): the requests sent, the category printed and the
\* value returned
test_shopify_connection(e, a) ==
    LET body == ProbeTry(e, a)
    IN [requests |-> body.requests,
        exc |-> body.exc,
        printed |-> IF body.exc = "" THEN "passed" ELSE ProbeHandler(body.exc, body.status),
        ret |-> body.exc = ""]

\* the stores the probe is run against: no failing check, or one failing check
\* (transport failure, or HTTP 401, 404 or 500)
ProbeApis ==
    {a \in [failAt : 0..Len(ProbeChecks) + 1, failStatus : {0, 401, 404, 500},
            orders_count : {0, 2}] :
        /\ a.failAt = 0 => a.failStatus = 0
        /\ a.failAt = Len(ProbeChecks) + 1 => a.orders_count > 0}

ProbeInit ==
    /\ penv \in EnvValues
    /\ papi \in ProbeApis
    /\ presult = <<>> /\ ppc = "start"
    /\ PipeIdle /\ FlatIdle

\* success = test_shopify_connection()
TestConnection ==
    /\ ppc = "start"
    /\ presult' = test_shopify_connection(penv, papi)
    /\ ppc' = "done"
    /\ UNCHANGED <<penv, papi, pipeVars, flatVars>>

ProbeNext == TestConnection

ProbeSpec == ProbeInit /\ [][ProbeNext]_vars

(***************************************************************************)
(* Properties of the pipeline (checked under Spec)                         *)
(***************************************************************************)
Pos(r) == CHOOSE i \in 1..Len(ResourceOrder) : ResourceOrder[i] = r

\* the generator of r has returned in this invocation
Ended(r) == Pos(r) < cur \/ (r = Current /\ phase = "ended")

\* a flat record without its extraction stamp
Unstamped(row) == [k \in DOMAIN row \ {"extracted_at"} |-> row[k]]
UnstampedRows(rows) == [i \in 1..Len(rows) |-> Unstamped(rows[i])]

\* the records of every page of every resource, flattened, without stamps
AllPageRows ==
    [r \in Resources |->
        [i \in 1..MaxPages |-> UnstampedRows(FlatPage(r, PageRecords(r, i), 0))]]

\* the records of page i of r, flattened, without stamps
PageRows(r, i) == AllPageRows[r][i]

RECURSIVE PagesRows(_, _)
\* the concatenation of the records of the pages listed in ps, in that order
PagesRows(r, ps) ==
    IF ps = <<>> THEN <<>> ELSE PageRows(r, Head(ps)) \o PagesRows(r, Tail(ps))

\* the pages served by the first k requests of r
Served(r, k) == [j \in 1..k |-> reqs[r][j].page]

\* the header lists a link whose relation is "next"
NamesNext(link) == RelNext \in {link[i] : i \in 1..Len(link)}

\* the page_info of the link of the header whose relation is "next" (null: none)
NextLinkPageInfo(link) ==
    LET rels == {i \in 1..Len(link) : link[i] = RelNext}
        rel == CHOOSE i \in rels : TRUE
        starts == {i \in 1..Len(link) - 1 :
                     /\ link[i] = "page_info=" /\ link[i + 1] \notin Stops /\ i < rel
                     /\ \A j \in i..rel : link[j] # ","}
    IN IF rels = {} \/ starts = {} THEN Null
       ELSE TextV(<<link[(CHOOSE i \in starts : TRUE) + 1]>>)

\* number of page_info parameters in a header
CursorCount(link) == Cardinality({i \in 1..Len(link) : link[i] = "page_info="})

\* get, sleep, get, ..., get: n requests with one pause between consecutive ones
PacedEvents(n) == [i \in 1..2 * n - 1 |-> IF i % 2 = 1 THEN "get" ELSE "sleep"]

\* the store of C1: both credentials accepted, no failing request, N >= 1 pages,
\* pages 1..N-1 with a Link header holding rel="next" and one page_info cursor,
\* page N with no Link header or one without rel="next"
PlainChain(r) ==
    LET n == api.npages[r]
    IN /\ CredentialsSet(env) /\ api.failRes # r /\ n >= 1
       /\ \A i \in 1..n - 1 :
             /\ NamesNext(LinkHeader(api.style, r, i, n))
             /\ CursorCount(LinkHeader(api.style, r, i, n)) = 1
       /\ ~NamesNext(LinkHeader(api.style, r, n, n))

\* C1: against a store serving N >= 1 non-empty pages, pages 1..N-1 with a Link
\* header carrying rel="next" and a page_info cursor and page N without a next
\* relation, the k-th request fetches page k, and when the stream has ended it
\* has yielded the concatenation of all pages' records in page order, issued
\* exactly N requests and slept once between consecutive requests, not after the
\* last.
C1_PagesInOrder ==
    \A r \in Resources :
        PlainChain(r) =>
            /\ Len(reqs[r]) <= api.npages[r]
            /\ \A k \in 1..Len(reqs[r]) : reqs[r][k].page = k
            /\ Ended(r) =>
                  /\ UnstampedRows(emitted[r]) =
                        PagesRows(r, [i \in 1..api.npages[r] |-> i])
                  /\ Len(reqs[r]) = api.npages[r]
                  /\ events[r] = PacedEvents(api.npages[r])

C1_Witness ==
    \E r \in Resources :
        /\ PlainChain(r) /\ Ended(r) /\ api.npages[r] >= 3
        /\ Len(reqs[r]) = api.npages[r] /\ Len(emitted[r]) >= 4

\* C2: whatever the Link headers contain besides the next relation, a stream
\* never requests a page it has already fetched, and so issues no more requests
\* than the chain has pages (it ends after a finite chain).
C2_NoPageFetchedTwice ==
    \A r \in Resources :
        CredentialsSet(env) /\ api.npages[r] >= 1 =>
            /\ \A j, k \in 1..Len(reqs[r]) :
                  j < k /\ reqs[r][j].exc = "" /\ reqs[r][k].exc = ""
                     => reqs[r][j].page # reqs[r][k].page
            /\ Len(reqs[r]) <= api.npages[r]

\* C3: after a successful non-empty page whose Link header has a rel="next"
\* relation, the page_info of the following request is the page_info of that
\* rel="next" link.
C3_FollowsNextLink ==
    \A r \in Resources :
        \A k \in 1..Len(reqs[r]) - 1 :
            reqs[r][k].exc = "" /\ NamesNext(reqs[r][k].link)
               => /\ "page_info" \in DOMAIN reqs[r][k + 1].params
                  /\ reqs[r][k + 1].params["page_info"] =
                        NextLinkPageInfo(reqs[r][k].link)

\* C4: when the k-th request of a stream fails (transport error or HTTP error
\* status), it is the stream's last request, the generator returns normally
\* (nothing is raised to its consumer), and the records yielded are exactly those
\* of the pages the k-1 earlier requests fetched.
C4_FailureEndsStream ==
    /\ phase # "crashed"
    /\ \A r \in Resources :
          \A k \in 1..Len(reqs[r]) :
              reqs[r][k].exc # "" =>
                  /\ k = Len(reqs[r])
                  /\ Ended(r)
                  /\ \A j \in 1..k - 1 : reqs[r][j].exc = ""
                  /\ UnstampedRows(emitted[r]) = PagesRows(r, Served(r, k - 1))

C4_Witness ==
    \E r \in Resources :
        /\ Len(reqs[r]) = 3 /\ reqs[r][3].exc = "HTTPError" /\ reqs[r][3].status = 401
        /\ Served(r, 2) = <<1, 2>> /\ Len(emitted[r]) = 3
        /\ Pos(r) < cur

NoDuplicateKeys(table) ==
    \A i, j \in 1..Len(table) :
        table[i][PrimaryKey] = table[j][PrimaryKey] => i = j

\* C7: no table ever holds two rows with the same id, and when a later
\* invocation against the unchanged store completes, every table holds the same
\* set of ids and the same number of rows as when the first one completed.
C7_RerunIdempotent ==
    \A r \in Resources :
        /\ NoDuplicateKeys(tables[r])
        /\ run >= 2 /\ phase = "done" =>
              /\ {tables[r][i][PrimaryKey] : i \in 1..Len(tables[r])} =
                    {snapshot[r][i] : i \in 1..Len(snapshot[r])}
              /\ Len(tables[r]) = Len(snapshot[r])

C7_Witness ==
    /\ run = 2 /\ phase = "done"
    /\ \A r \in Resources : Len(tables[r]) >= 3 /\ Len(emitted[r]) >= 3

\* some request of r failed in this invocation
Failed(r) == \E k \in 1..Len(reqs[r]) : reqs[r][k].exc # ""

\* C8: the streams run one after another in the order orders, products,
\* customers (a stream issues requests only once every earlier one is loaded),
\* and a failed request in one stream leaves the others alone: the invocation
\* still runs to its end with all three loads done in order, and every stream
\* without a failed request of its own is extracted in full and loaded.
C8_SequentialAndIsolated ==
    /\ phase # "crashed"
    /\ Len(loads) <= Len(ResourceOrder)
    /\ \A i \in 1..Len(loads) : loads[i] = ResourceOrder[i]
    /\ \A r \in Resources : reqs[r] # <<>> => Len(loads) >= Pos(r) - 1
    /\ \A r \in Resources : Ended(r) /\ Failed(r) /\ phase # "ended" =>
           Len(loads) >= Pos(r)
    /\ phase = "done" =>
          /\ loads = ResourceOrder
          /\ \A r \in Resources :
                ~Failed(r) =>
                    /\ UnstampedRows(emitted[r]) =
                          PagesRows(r, [i \in 1..api.npages[r] |-> i])
                    /\ \A i \in 1..Len(emitted[r]) :
                          \E j \in 1..Len(tables[r]) : tables[r][j] = emitted[r][i]

C8_Witness ==
    /\ phase = "done" /\ Failed("orders") /\ Len(emitted["orders"]) = 2
    /\ ~Failed("products") /\ ~Failed("customers")
    /\ Len(reqs["products"]) >= 2 /\ Len(reqs["customers"]) >= 3
    /\ Len(tables["customers"]) >= 4

\* C10: a stream started without the access token or without the store
\* identifier issues no HTTP request.
C10_NoRequestWithoutCredentials ==
    \A r \in Resources : ~CredentialsSet(env) => reqs[r] = <<>>


(***************************************************************************)
(* Properties of the flattening (checked under FlattenSpec)                *)
(***************************************************************************)
\* the flat keys taken from inside a nested object: <<flat key, parent, child>>
NestedSources(kind) ==
    IF kind # "orders" THEN {}
    ELSE {<<"customer_id", "customer", "id">>, <<"customer_email", "customer", "email">>,
          <<"billing_address_name", "billing_address", "name">>,
          <<"billing_address_company", "billing_address", "company">>,
          <<"billing_address_address1", "billing_address", "address1">>,
          <<"billing_address_city", "billing_address", "city">>,
          <<"billing_address_province", "billing_address", "province">>,
          <<"billing_address_country", "billing_address", "country">>,
          <<"billing_address_zip", "billing_address", "zip">>,
          <<"shipping_address_name", "shipping_address", "name">>,
          <<"shipping_address_company", "shipping_address", "company">>,
          <<"shipping_address_address1", "shipping_address", "address1">>,
          <<"shipping_address_city", "shipping_address", "city">>,
          <<"shipping_address_province", "shipping_address", "province">>,
          <<"shipping_address_country", "shipping_address", "country">>,
          <<"shipping_address_zip", "shipping_address", "zip">>}

\* the flat keys that hold the text of a whole nested field
TextFields(kind) ==
    IF kind = "customers" THEN {"addresses", "tax_exemptions", "default_address"} ELSE {}

\* the fixed field list of a kind
FieldList(kind) ==
    ScalarFields(kind) \cup {s[1] : s \in NestedSources(kind)} \cup TextFields(kind)
       \cup {"extracted_at"}

\* the flat key's source value is missing from the raw record
SourceMissing(kind, raw, key) ==
    IF \E s \in NestedSources(kind) : s[1] = key
    THEN LET s == CHOOSE t \in NestedSources(kind) : t[1] = key
         IN \/ s[2] \notin DOMAIN raw.d
            \/ raw.d[s[2]] = Null
            \/ raw.d[s[2]].t = "obj" /\ s[3] \notin DOMAIN raw.d[s[2]].d
    ELSE key \notin DOMAIN raw.d \/ (key \in TextFields(kind) /\ raw.d[key] = Null)

\* flattening raised no exception
FlattenedCleanly(flat) == \A k \in DOMAIN flat : flat[k].t # "raise"

\* C5: whatever is present, absent or null in the raw record, the flat record of
\* a kind has exactly that kind's fixed key set, id and extracted_at included.
C5_FixedKeySet ==
    fpc = "flat" =>
        /\ DOMAIN fflat = FieldList(fkind)
        /\ {"id", "extracted_at"} \subseteq DOMAIN fflat

C5_Witness ==
    /\ fpc = "flat" /\ fkind = "orders"
    /\ DOMAIN fraw.d = {"id", "customer"} /\ fraw.d["customer"] = Null
    /\ Cardinality(DOMAIN fflat) = 38

\* C6 as stated: every flat field other than extracted_at whose source value is
\* missing (absent top-level field, absent or null nested parent, the customers'
\* addresses, tax_exemptions and default_address included) is null, and
\* flattening does not fail.
C6_MissingIsNull ==
    fpc = "flat" =>
        /\ FlattenedCleanly(fflat)
        /\ \A k \in FieldList(fkind) \ {"extracted_at"} :
              SourceMissing(fkind, fraw, k) => k \in DOMAIN fflat /\ fflat[k] = Null

\* C6 as amended: the same for every flat field except the customers' addresses,
\* tax_exemptions and default_address, which hold a text: str() of the default
\* ("[]", "[]", "{}") when the field is absent and "None" when it is null.
C6_MissingIsNullOrText ==
    fpc = "flat" =>
        /\ FlattenedCleanly(fflat)
        /\ \A k \in FieldList(fkind) \ ({"extracted_at"} \cup TextFields(fkind)) :
              SourceMissing(fkind, fraw, k) => k \in DOMAIN fflat /\ fflat[k] = Null
        /\ \A k \in TextFields(fkind) :
              /\ k \notin DOMAIN fraw.d =>
                    fflat[k] = StrV(IF k = "default_address" THEN "{}" ELSE "[]")
              /\ k \in DOMAIN fraw.d /\ fraw.d[k] = Null => fflat[k] = StrV("None")

C6_Witness ==
    /\ fpc = "flat" /\ fkind = "customers"
    /\ DOMAIN fraw.d = {"id", "default_address"} /\ fraw.d["default_address"] = Null
    /\ fflat["email"] = Null /\ fflat["addresses"] = StrV("[]")
    /\ fflat["default_address"] = StrV("None")

(***************************************************************************)
(* Properties of the connectivity probe (checked under ProbeSpec)          *)
(***************************************************************************)
\* the category of the failure the environment and the store cause
\* ("none": the probe meets no failure)
ProbeCause(e, a) ==
    IF e["API_TOKEN"] = Null \/ e["STORE_ID"] = Null THEN "configuration"
    ELSE IF a.failAt = 0 THEN "none"
    ELSE IF a.failStatus = 0 THEN "network"
    ELSE IF a.failStatus = 401 THEN "authentication"
    ELSE IF a.failStatus = 404 THEN "not_found"
    ELSE "http"

\* C9: the probe reports every failure in the category of its cause and
\* returns False: a missing credential as a configuration error (before any
\* request), HTTP 401 as an authentication error, HTTP 404 as a not-found error,
\* another HTTP error status as an HTTP error, a transport failure as a network
\* error; the failing request is the last one sent.
C9_FailureReportedByCause ==
    ppc = "done" /\ ProbeCause(penv, papi) # "none" =>
        /\ presult.ret = FALSE
        /\ presult.printed = ProbeCause(penv, papi)
        /\ Len(presult.requests) =
              (IF ProbeCause(penv, papi) = "configuration" THEN 0 ELSE papi.failAt)

\* the requests of a probe call that meets no failure: shop info, orders count,
\* products count, customers count, then the sample order if orders_count > 0
ProbeSequence(e, a) ==
    [i \in 1..Len(ProbeChecks) |-> BaseUrl(e) \o <<ProbeChecks[i]>>]
       \o (IF a.orders_count > 0 THEN <<BaseUrl(e) \o <<SampleOrder>>>> ELSE <<>>)

\* C11: with both credentials set and every endpoint answering successfully,
\* the probe sends its requests in the order shop info, orders count, products
\* count, customers count, then one sample-order request if and only if the
\* orders count is greater than 0, and returns True.
C11_ChecksInOrderThenTrue ==
    ppc = "done" /\ CredentialsSet(penv) /\ papi.failAt = 0 =>
        /\ presult.requests = ProbeSequence(penv, papi)
        /\ presult.ret = TRUE
        /\ presult.printed = "passed"

====
